---- MODULE Spec2Model ----
(***************************************************************************)
(* A model of ord-plan's event-generation and merge pipeline:              *)
(*   CronService      (services/cron_service.py)   rule expansion          *)
(*   EventService     (services/event_service.py)  grouping and merging    *)
(*   OrgModeParser    (parsers/org_mode.py)        reading and rendering   *)
(*   FileService      (services/file_service.py)   writing the target file *)
(*   generate         (cli/generate.py)            the command's pipeline  *)
(*   DateRange        (models/date_range.py)       interval, its warnings  *)
(*   validators       (utils/validators.py)        cron validation         *)
(*                                                                         *)
(* Time.  An instant is a natural number of slots; a slot is one instant a *)
(* cron expression can name (croniter works at minute resolution; the      *)
(* model keeps SlotsPerDay instants per day).  Day 0 is Sunday 2025-12-28, *)
(* so the modelled days straddle a year boundary and an ISO-week boundary. *)
(*                                                                         *)
(* Strings.  A string that the code inspects is a record Str:              *)
(*   date  {d} if the string starts with the YYYY-MM-DD text of day d,     *)
(*         NoDate otherwise                                                *)
(*   tm    {s} if the THH:MM:SS text of slot s follows the date, or NoTime *)
(*   rest  the remaining characters                                        *)
(* A title is the sequence of the pieces str.split("@@") yields, so a      *)
(* title of one piece is a title without the delimiter.                    *)
(***************************************************************************)
EXTENDS Integers, Sequences, FiniteSets, TLC

VARIABLES
    pc,              \* position of the modelled caller
    new_nodes,       \* List[OrgDateNode]: nodes holding generated events
    existing_nodes,  \* List[OrgDateNode]: nodes read from the target file
    merged_nodes,    \* List[OrgDateNode]: result of the merge
    existing_objs,   \* the objects of existing_nodes as the merge left them
    rules,           \* List[EventRule]
    date_range,      \* DateRange: [start_date, end_date]
    rule_idx,        \* generate_all_events: number of rules processed
    rule_events,     \* result of the last generate_events_for_rule call
    all_events,      \* generate_all_events: accumulated events
    file,            \* the target file: [exists, lines]
    file_before,     \* the target file as it was before the last run
    run,             \* outcome of the last generate run
    now,             \* datetime.now(): the clock the code reads
    opts,            \* the command's flags and the user's answer to prompts
    constructed,     \* outcome of the last DateRange(...) construction
    cron_errors      \* generate: the cron validation errors reported

vars == <<pc, new_nodes, existing_nodes, merged_nodes, existing_objs, rules, date_range,
          rule_idx, rule_events, all_events, file, file_before, run, now, opts,
          constructed, cron_errors>>

\* What only the command line and the DateRange constructor touch
cli_vars == <<now, opts, constructed, cron_errors>>

---------------------------------------------------------------------------
(* Bounds of the model *)

MaxNodes == 2        \* longest list of date nodes given to the merge
MaxMergeDay == 1     \* last day a merge input node may be dated
MaxDay == 2          \* last day of the date ranges explored
MaxRules == 2        \* longest rule list
MaxRuns == 2         \* successive generate runs against one file
SlotsPerDay == 2     \* instants per day a cron expression can name

---------------------------------------------------------------------------
(* Sequences *)

RECURSIVE SeqsUpTo(_, _)
SeqsUpTo(S, n) ==
    IF n = 0 THEN {<<>>}
    ELSE LET shorter == SeqsUpTo(S, n - 1)
         IN  shorter \cup {Append(s, x) : s \in {q \in shorter : Len(q) = n - 1}, x \in S}

Range(s) == {s[i] : i \in DOMAIN s}

RECURSIVE Concat(_)
Concat(ss) == IF ss = <<>> THEN <<>> ELSE Head(ss) \o Concat(Tail(ss))

SetMax(S) == CHOOSE x \in S : \A y \in S : y <= x
SetMin(S) == CHOOSE x \in S : \A y \in S : x <= y

---------------------------------------------------------------------------
(* Calendar: datetime, date(), strftime *)

DateOf(t) == t \div SlotsPerDay          \* datetime.date()
SlotOf(t) == t % SlotsPerDay             \* time of day
Midnight(d) == d * SlotsPerDay           \* datetime.combine(d, datetime.min.time())

\* Monday = 0 ... Sunday = 6; day 0 is Sunday 2025-12-28
Weekday(d) == (d + 6) % 7
\* 2025-01-01, the first day of the calendar year of day 0
NewYearsDay == 0 - 361
\* strftime("%Y"): 2025-01-01 .. 2025-12-31 are days NewYearsDay..3
YearOf(d) == IF d <= 3 THEN 2025 ELSE 2026
\* strftime("%V"): ISO week number.  ISO week 1 of 2025 begins on Monday
\* 2024-12-30 (day -363); 2025-12-28 closes week 52, and the week of Monday
\* 2025-12-29 is ISO week 1 (of ISO year 2026)
IsoWeekOf(d) == IF d <= 0 THEN 1 + ((d + 363) \div 7) ELSE 1 + ((d - 1) \div 7)

---------------------------------------------------------------------------
(* Strings and titles *)

NoDate == {}    \* the string does not start with a date
NoTime == {}    \* no time of day follows the date

Text(s) == [date |-> NoDate, tm |-> NoTime, rest |-> s]
\* datetime.isoformat()
isoformat(t) == [date |-> {DateOf(t)}, tm |-> {SlotOf(t)}, rest |-> ""]
\* datetime.fromisoformat(): accepts a date with or without a time, nothing else
IsIsoFormat(s) == s.date # NoDate /\ s.rest = ""
fromisoformat(s) ==
    Midnight(CHOOSE d \in s.date : TRUE) +
    (IF s.tm = NoTime THEN 0 ELSE CHOOSE x \in s.tm : TRUE)

\* str.strip() == "" for a one-piece string
IsBlank(s) == s.date = NoDate /\ s.tm = NoTime /\ s.rest = ""
\* title.strip() is empty: no delimiter and nothing but blanks
IsBlankTitle(title) == Len(title) = 1 /\ IsBlank(title[1])

Title(s) == <<Text(s)>>

---------------------------------------------------------------------------
(* models/org_event.py, models/org_date_node.py *)

\* The fields of the OrgEvent dataclass, i.e. the keyword arguments its
\* constructor accepts and the attributes an instance has.
OrgEventFields == {"title", "level", "todo_state", "tags", "description"}

NoInstant == {}

\* An OrgEvent.  todo_state and description are "" for None.  instant is
\* auxiliary: {t} if the event was generated for the instant t, NoInstant if
\* it was not generated; no code reads it.
OrgEvent(title, todo_state, tags, description, instant) ==
    [title |-> title, level |-> 4, todo_state |-> todo_state, tags |-> tags,
     description |-> description, instant |-> instant]

\* OrgEvent.__post_init__
OrgEventValid(e) == ~IsBlankTitle(e.title) /\ e.level >= 1

OrgDateNode(date, existing_events, new_events) ==
    [date |-> date, existing_events |-> existing_events, new_events |-> new_events]

all_events_of(node) == node.existing_events \o node.new_events

---------------------------------------------------------------------------
(* EventService.merge_with_existing_nodes *)

DateKey(node) == DateOf(node.date)

\* existing_by_date: a later node of the same date replaces an earlier one
ExistingByDate(existing) ==
    [k \in {DateKey(existing[i]) : i \in DOMAIN existing} |->
        SetMax({i \in DOMAIN existing : DateKey(existing[i]) = k})]

\* The loop over new_nodes.  A node of the result is a reference: <<"E", i>>
\* is the object existing_nodes[i], <<"N", j>> the object new_nodes[j].
\* extra[i] is what the loop has appended to existing_nodes[i].new_events.
RECURSIVE MergeNewLoop(_, _, _, _, _)
MergeNewLoop(new, existing, j, extra, refs) ==
    IF j > Len(new) THEN [extra |-> extra, refs |-> refs]
    ELSE LET by_date == ExistingByDate(existing)
             key == DateKey(new[j])
         IN  IF key \in DOMAIN by_date
             THEN LET i == by_date[key]
                  IN  MergeNewLoop(new, existing, j + 1,
                         [extra EXCEPT ![i] = @ \o new[j].new_events],
                         Append(refs, <<"E", i>>))
             ELSE MergeNewLoop(new, existing, j + 1, extra, Append(refs, <<"N", j>>))

\* The loop adding the existing nodes whose date no new node has
RECURSIVE MergeExistingLoop(_, _, _, _)
MergeExistingLoop(new, existing, i, refs) ==
    IF i > Len(existing) THEN refs
    ELSE IF DateKey(existing[i]) \notin {DateKey(new[j]) : j \in DOMAIN new}
         THEN MergeExistingLoop(new, existing, i + 1, Append(refs, <<"E", i>>))
         ELSE MergeExistingLoop(new, existing, i + 1, refs)

\* list.sort(key=...): stable, ascending by key.  The elements are sorted
\* decorated: [key |-> the sort key, val |-> the element].
RECURSIVE InsertByKey(_, _)
InsertByKey(sorted, x) ==
    IF sorted = <<>> THEN <<x>>
    ELSE IF x.key < sorted[Len(sorted)].key
         THEN Append(InsertByKey(SubSeq(sorted, 1, Len(sorted) - 1), x), sorted[Len(sorted)])
         ELSE Append(sorted, x)

\* A sort that was left out
SortByKey_Missing(s) == s

RECURSIVE SortByKey(_)
SortByKey(s) ==
    IF s = <<>> THEN <<>>
    ELSE InsertByKey(SortByKey(SubSeq(s, 1, Len(s) - 1)), s[Len(s)])

\* The existing nodes after the call: the merge extends their new_events in place
ExistingAfterMerge(existing, extra) ==
    [i \in DOMAIN existing |->
        [existing[i] EXCEPT !.new_events = @ \o extra[i]]]

merge_with_existing_nodes(new, existing) ==
    LET loop1 == MergeNewLoop(new, existing, 1, [i \in DOMAIN existing |-> <<>>], <<>>)
        refs == MergeExistingLoop(new, existing, 1, loop1.refs)
        after == ExistingAfterMerge(existing, loop1.extra)
        Deref(r) == IF r[1] = "E" THEN after[r[2]] ELSE new[r[2]]
        \* merged_nodes.sort(key=lambda node: node.date)
        sorted == SortByKey([k \in DOMAIN refs |->
                                [key |-> Deref(refs[k]).date, val |-> refs[k]]])
    IN  [nodes |-> [k \in DOMAIN sorted |-> Deref(sorted[k].val)],
         existing |-> after]

---------------------------------------------------------------------------
(* models/event_rule.py and the croniter library *)

EventRule(title, cron, tags, todo_state, description) ==
    [title |-> title, cron |-> cron, tags |-> tags, todo_state |-> todo_state,
     description |-> description]

\* A cron expression: whether croniter accepts it, the times of day its
\* minute and hour fields name, and the weekdays its day-of-week field names
\* (Monday = 0).  Day-of-month and month are "*".
Cron(valid, slots, weekdays) == [valid |-> valid, slots |-> slots, weekdays |-> weekdays]

Matches(cron, t) == SlotOf(t) \in cron.slots /\ Weekday(DateOf(t)) \in cron.weekdays

\* croniter.get_next(datetime): the first matching instant strictly after t.
\* Every cron of the model names a time of day and a weekday, so there is one
\* within a week.
get_next(cron, t) ==
    SetMin({u \in (t + 1)..(t + 7 * SlotsPerDay) : Matches(cron, u)})

---------------------------------------------------------------------------
(* CronService.generate_events_for_rule, generate_all_events *)

SafetyLimit == 10000

\* default_todo_state of the command's configuration
DefaultTodoState == "TODO"

\* The event built for one occurrence: the instant is appended to the title
\* behind the delimiter "@@"
EventFor(rule, current_date, default_todo_state) ==
    OrgEvent(Append(rule.title, isoformat(current_date)),
             IF rule.todo_state # "" THEN rule.todo_state ELSE default_todo_state,
             rule.tags, rule.description, {current_date})

\* One pass of the while loop.  A loop state is [current_date, events,
\* running]; running is FALSE once the loop condition has failed or the
\* safety check has left the loop.
LoopPass(rule, range, default_todo_state, limit, st) ==
    IF ~st.running THEN st
    ELSE IF st.current_date <= range.end_date
    THEN [current_date |-> get_next(rule.cron, st.current_date),
          events |-> IF st.current_date >= range.start_date
                     THEN Append(st.events,
                                 EventFor(rule, st.current_date, default_todo_state))
                     ELSE st.events,
          running |-> Len(st.events)
                      + (IF st.current_date >= range.start_date THEN 1 ELSE 0) <= limit]
    ELSE [st EXCEPT !.running = FALSE]

\* n passes of the loop, one after the other
RECURSIVE LoopPasses(_, _, _, _, _, _)
LoopPasses(rule, range, default_todo_state, limit, st, n) ==
    IF n = 0 THEN st
    ELSE IF n = 1 THEN LoopPass(rule, range, default_todo_state, limit, st)
    ELSE LET half == LoopPasses(rule, range, default_todo_state, limit, st, n \div 2)
         IN  IF half.running
             THEN LoopPasses(rule, range, default_todo_state, limit, half, n - (n \div 2))
             ELSE half

\* The while loop, entered with current_date = cron.get_next(datetime): every
\* pass moves current_date forward, so the loop has ended after as many
\* passes as there are instants from current_date to end_date, and one more
GenerateLoop(rule, range, default_todo_state, current_date, events, limit) ==
    LoopPasses(rule, range, default_todo_state, limit,
               [current_date |-> current_date, events |-> events, running |-> TRUE],
               IF current_date > range.end_date THEN 1
               ELSE range.end_date - current_date + 2).events

Reverse(s) == [i \in DOMAIN s |-> s[Len(s) + 1 - i]]

\* A loop that runs one instant past end_date
generate_events_for_rule_PastEnd(rule, range, default_todo_state) ==
    GenerateLoop(rule, [range EXCEPT !.end_date = @ + 1], default_todo_state,
                 get_next(rule.cron, range.start_date), <<>>, SafetyLimit)

\* A loop that puts each event in front of the earlier ones
generate_events_for_rule_Prepend(rule, range, default_todo_state) ==
    Reverse(GenerateLoop(rule, range, default_todo_state,
                         get_next(rule.cron, range.start_date), <<>>, SafetyLimit))

\* Defined for a rule whose cron croniter accepts; otherwise the call raises
\* ValueError
generate_events_for_rule(rule, range, default_todo_state) ==
    GenerateLoop(rule, range, default_todo_state,
                 get_next(rule.cron, range.start_date), <<>>, SafetyLimit)

---------------------------------------------------------------------------
(* EventService.organize_events_by_date *)

\* The loop over the events.  done holds the events already visited, with
\* their titles as the loop left them; by_date is events_by_date.
RECURSIVE OrganizeLoop(_, _, _, _, _)
OrganizeLoop(events, k, range, done, by_date) ==
    IF k > Len(events) THEN [raised |-> FALSE, events |-> done, by_date |-> by_date]
    ELSE LET event == events[k]
             title_parts == event.title            \* event.title.split("@@")
         IN  IF Len(title_parts) > 1                \* "@@" in event.title
             THEN IF ~IsIsoFormat(title_parts[2])
                  THEN \* datetime.fromisoformat raises ValueError
                       [raised |-> TRUE,
                        events |-> done \o SubSeq(events, k, Len(events)),
                        by_date |-> by_date]
                  ELSE LET cleaned == [event EXCEPT !.title = <<title_parts[1]>>]
                           date_key == DateOf(fromisoformat(title_parts[2]))
                           old == IF date_key \in DOMAIN by_date THEN by_date[date_key] ELSE <<>>
                       IN  OrganizeLoop(events, k + 1, range, Append(done, cleaned),
                              [d \in DOMAIN by_date \cup {date_key} |->
                                  IF d = date_key THEN Append(old, cleaned) ELSE by_date[d]])
             ELSE LET date_key == DateOf(range.start_date)
                      old == IF date_key \in DOMAIN by_date THEN by_date[date_key] ELSE <<>>
                  IN  OrganizeLoop(events, k + 1, range, Append(done, event),
                         [d \in DOMAIN by_date \cup {date_key} |->
                             IF d = date_key THEN Append(old, event) ELSE by_date[d]])

\* sorted(...): the elements of a set of days, ascending
RECURSIVE SortedDays(_)
SortedDays(S) ==
    IF S = {} THEN <<>> ELSE <<SetMin(S)>> \o SortedDays(S \ {SetMin(S)})

\* raised: the call raised ValueError; events: the input events after the
\* call (the loop rewrites their titles in place); nodes: the returned list
organize_events_by_date(events, range) ==
    LET loop == OrganizeLoop(events, 1, range, <<>>, <<>>)
        days == SortedDays(DOMAIN loop.by_date)
    IN  [raised |-> loop.raised,
         events |-> loop.events,
         nodes |-> IF loop.raised THEN <<>>
                   ELSE [i \in DOMAIN days |->
                            OrgDateNode(Midnight(days[i]), <<>>, loop.by_date[days[i]])]]

\* generate_all_events returning normally: every rule's events, in rule order
generate_all_events(rule_list, range, default_todo_state) ==
    Concat([i \in DOMAIN rule_list |->
               generate_events_for_rule(rule_list[i], range, default_todo_state)])

---------------------------------------------------------------------------
(* The target file as orgparse sees it.

   A file is a sequence of lines.  A line is
     [stars, kw, title, tags]
   stars  the number of leading asterisks; 0 for a line that is no headline
   kw     the first word of a headline if it is an upper-case keyword, else ""
   title  the text of the line (behind the keyword), as a title
   tags   the tags of the trailing :a:b: block                              *)

Line(stars, kw, title, tags) == [stars |-> stars, kw |-> kw, title |-> title, tags |-> tags]
TextLine(s) == Line(0, "", Title(s), <<>>)

\* orgparse's default TODO keywords: it removes them from node.heading
OrgparseTodoKeys == {"TODO", "DONE"}

IsHeadline(l) == l.stars > 0

\* node.heading: the headline without asterisks, TODO keyword and tags
Heading(l) ==
    [kw |-> IF l.kw \in OrgparseTodoKeys THEN "" ELSE l.kw, title |-> l.title]

\* bool(node.heading)
HeadingNonEmpty(l) == Heading(l).kw # "" \/ ~IsBlankTitle(l.title)

\* for child in node: the node itself, then every following headline that is
\* deeper than it, up to the first that is not
RECURSIVE SubtreeEnd(_, _, _)
SubtreeEnd(lines, i, k) ==
    IF k > Len(lines) THEN Len(lines)
    ELSE IF IsHeadline(lines[k]) /\ lines[k].stars <= lines[i].stars THEN k - 1
         ELSE SubtreeEnd(lines, i, k + 1)

Subtree(lines, i) ==
    {k \in i..SubtreeEnd(lines, i, i + 1) : IsHeadline(lines[k])}

\* node.body: the lines between the headline and the next headline
RECURSIVE BodyEnd(_, _)
BodyEnd(lines, k) ==
    IF k > Len(lines) \/ IsHeadline(lines[k]) THEN k - 1 ELSE BodyEnd(lines, k + 1)

Body(lines, i) == SubSeq(lines, i + 1, BodyEnd(lines, i + 1))

---------------------------------------------------------------------------
(* OrgModeParser: read_existing_content *)

\* re.match(r"\d{4}-\d{2}-\d{2}", heading)
_is_date_node(l) ==
    /\ HeadingNonEmpty(l)
    /\ Heading(l).kw = ""
    /\ l.title[1].date # NoDate

\* The keywords _parse_event_from_node recognises at the start of a heading
ParserTodoKeys == {"TODO", "DONE", "INPROGRESS"}

\* The keyword arguments _parse_event_from_node passes to OrgEvent(...)
ParsedEventKwargs == {"title", "todo_state", "tags", "body"}

\* event: <<>> for None, <<e>> for an event; raised: the call raised
\* (TypeError for a keyword argument OrgEvent does not take, ValueError from
\* OrgEvent.__post_init__)
_parse_event_from_node(lines, k) ==
    LET heading == Heading(lines[k])
        has_state == heading.kw \in ParserTodoKeys
        todo_state == IF has_state THEN heading.kw ELSE ""
        title == IF has_state \/ heading.kw = "" THEN heading.title
                 ELSE <<[heading.title[1] EXCEPT !.date = NoDate, !.tm = NoTime,
                                                 !.rest = heading.kw \o " " \o @]>>
                      \o Tail(heading.title)
        event == OrgEvent(title, todo_state, lines[k].tags, "", NoInstant)
    IN  IF ~HeadingNonEmpty(lines[k]) THEN [raised |-> FALSE, event |-> <<>>]
        ELSE IF ~(ParsedEventKwargs \subseteq OrgEventFields)
             THEN [raised |-> TRUE, event |-> <<>>]
        ELSE IF ~OrgEventValid(event) THEN [raised |-> TRUE, event |-> <<>>]
        ELSE [raised |-> FALSE, event |-> <<event>>]

\* node: <<>> for None, <<n>> for a date node
_parse_date_node(lines, i) ==
    LET children == SortedDays(Subtree(lines, i))
        parsed == [c \in DOMAIN children |-> _parse_event_from_node(lines, children[c])]
        day == CHOOSE d \in lines[i].title[1].date : TRUE
    IN  IF \E c \in DOMAIN parsed : parsed[c].raised
        THEN <<>>                                  \* except Exception: return None
        ELSE <<OrgDateNode(Midnight(day),
                           Concat([c \in DOMAIN parsed |-> parsed[c].event]), <<>>)>>

read_existing_content(f) ==
    IF ~f.exists THEN <<>>
    ELSE Concat([i \in DOMAIN f.lines |->
                    IF IsHeadline(f.lines[i]) /\ HeadingNonEmpty(f.lines[i])
                       /\ _is_date_node(f.lines[i])
                    THEN _parse_date_node(f.lines, i)
                    ELSE <<>>])

---------------------------------------------------------------------------
(* OrgModeParser: render_org_content *)

Pad2(n) == (IF n < 10 THEN "0" ELSE "") \o ToString(n)
WeekdayAbbr(d) == <<"Mon", "Tue", "Wed", "Thu", "Fri", "Sat", "Sun">>[Weekday(d) + 1]

year(node) == ToString(YearOf(DateKey(node)))                       \* "%Y"
week(node) == year(node) \o "-W" \o Pad2(IsoWeekOf(DateKey(node)))  \* "%Y-W%V"
\* "%Y-%m-%d %a"
day(node) == <<[date |-> {DateKey(node)}, tm |-> NoTime,
                rest |-> " " \o WeekdayAbbr(DateKey(node))]>>

\* The attributes of the event that _render_event reads
RenderedEventAttrs == {"todo_state", "title", "tags", "level", "body"}

\* lines: the rendered headline; raised: AttributeError for an attribute an
\* OrgEvent does not have
_render_event(event) ==
    IF ~(RenderedEventAttrs \subseteq OrgEventFields)
    THEN [raised |-> TRUE, lines |-> <<>>]
    ELSE [raised |-> FALSE,
          lines |-> <<Line(event.level, event.todo_state, event.title, event.tags)>>]

\* The (year, week) keys in sorted order: the order of the strings is the
\* order of the numbers (year, year, week number)
YearWeekKey(node) == YearOf(DateKey(node)) * 100 + IsoWeekOf(DateKey(node))

\* The lines of one date node: its heading, its existing events, its new events
NodeLines(node) ==
    LET events == node.existing_events \o node.new_events
        rendered == [k \in DOMAIN events |-> _render_event(events[k])]
    IN  [raised |-> \E k \in DOMAIN rendered : rendered[k].raised,
         lines |-> <<Line(3, "", day(node), <<>>)>>
                   \o Concat([k \in DOMAIN rendered |-> rendered[k].lines])]

\* The lines of one (year, week) group; first: no year heading precedes it
WeekLines(nodes_in_week, prev_year, first) ==
    LET head == nodes_in_week[1]
        year_lines == IF year(head) # prev_year
                      THEN (IF first THEN <<>> ELSE <<TextLine("")>>)
                           \o <<Line(1, "", Title(year(head)), <<>>)>>
                      ELSE <<>>
        rendered == [n \in DOMAIN nodes_in_week |-> NodeLines(nodes_in_week[n])]
    IN  [raised |-> \E n \in DOMAIN rendered : rendered[n].raised,
         lines |-> year_lines \o <<Line(2, "", Title(week(head)), <<>>)>>
                   \o Concat([n \in DOMAIN rendered |-> rendered[n].lines])]

RECURSIVE RenderWeeks(_, _, _, _)
RenderWeeks(date_nodes, keys, prev_year, first) ==
    IF keys = <<>> THEN [raised |-> FALSE, lines |-> <<>>]
    ELSE LET in_week == SelectSeq(date_nodes, LAMBDA n : YearWeekKey(n) = Head(keys))
             sorted == SortByKey([k \in DOMAIN in_week |->
                                     [key |-> in_week[k].date, val |-> in_week[k]]])
             nodes_in_week == [k \in DOMAIN sorted |-> sorted[k].val]
             this == WeekLines(nodes_in_week, prev_year, first)
             rest == RenderWeeks(date_nodes, Tail(keys), year(nodes_in_week[1]), FALSE)
         IN  [raised |-> this.raised \/ rest.raised, lines |-> this.lines \o rest.lines]

\* lines: the lines of the returned text; raised: the call raised
render_org_content(date_nodes) ==
    IF date_nodes = <<>> THEN [raised |-> FALSE, lines |-> <<>>]
    ELSE RenderWeeks(date_nodes,
                     SortedDays({YearWeekKey(date_nodes[k]) : k \in DOMAIN date_nodes}),
                     "", TRUE)

---------------------------------------------------------------------------
(* FileService *)

\* write_org_content(content, file_path): the file holds the content
write_org_content(lines) == [exists |-> TRUE, lines |-> lines]

RECURSIVE SumLen(_)
SumLen(ss) == IF ss = <<>> THEN 0 ELSE Len(Head(ss)) + SumLen(Tail(ss))

\* get_file_content_stats(file_path)["events"]
get_file_content_stats(f) ==
    LET nodes == read_existing_content(f)
    IN  [exists |-> f.exists,
         events |-> SumLen([k \in DOMAIN nodes |-> nodes[k].existing_events])]

\* merged_nodes[date_key] = existing_node: a dict keeps the position of a key
\* it already has and takes the new value
PutNode(merged, node) ==
    IF \E k \in DOMAIN merged : DateKey(merged[k]) = DateKey(node)
    THEN [k \in DOMAIN merged |->
             IF DateKey(merged[k]) = DateKey(node) THEN node ELSE merged[k]]
    ELSE Append(merged, node)

\* "First, add all existing nodes"
RECURSIVE AddExistingLoop(_, _)
AddExistingLoop(existing, merged) ==
    IF existing = <<>> THEN merged
    ELSE AddExistingLoop(Tail(existing), PutNode(merged, Head(existing)))

\* "Then merge new events": into the node the dict has for the date, else
\* the new node enters the dict
RECURSIVE MergeNewEventsLoop(_, _)
MergeNewEventsLoop(new, merged) ==
    IF new = <<>> THEN merged
    ELSE LET new_node == Head(new)
         IN  MergeNewEventsLoop(Tail(new),
                IF \E k \in DOMAIN merged : DateKey(merged[k]) = DateKey(new_node)
                THEN [k \in DOMAIN merged |->
                         IF DateKey(merged[k]) = DateKey(new_node)
                         THEN [merged[k] EXCEPT !.new_events = @ \o new_node.new_events]
                         ELSE merged[k]]
                ELSE Append(merged, new_node))

\* FileService.merge_with_existing_content(new_date_nodes, existing_file_path)
merge_with_existing_content(new_date_nodes, f) ==
    LET merged == MergeNewEventsLoop(new_date_nodes,
                                     AddExistingLoop(read_existing_content(f), <<>>))
        sorted == SortByKey([k \in DOMAIN merged |->
                                [key |-> DateKey(merged[k]), val |-> merged[k]]])
    IN  [k \in DOMAIN sorted |-> sorted[k].val]

---------------------------------------------------------------------------
(* EventService.generate_complete_event_set and the generate command, from
   the point where the rules and the date range have been parsed and
   validated *)

\* raised: organize_events_by_date raised; nodes: the merged date nodes
generate_complete_event_set(rule_list, range, existing, default_todo_state) ==
    LET events == generate_all_events(rule_list, range, default_todo_state)
        organized == organize_events_by_date(events, range)
    IN  [raised |-> organized.raised,
         new_nodes |-> organized.nodes,
         nodes |-> IF organized.raised THEN <<>>
                   ELSE merge_with_existing_nodes(organized.nodes, existing).nodes]

NoRun == [n |-> 0, status |-> "none", total_events |-> 0, new_events |-> 0,
          existing_preserved |-> 0]

\* generate --rules ... --file f --from ... --to ...: what the command leaves
\* behind.  status "ok": the file was written and the summary printed;
\* "crashed": an exception ended the command before the write.

\* The write and the summary, from the merged nodes and the rendered text
WriteAndReport(f, n, existing, set, content, stats_before) ==
    LET crashed == set.raised \/ content.raised
    IN  [file |-> IF crashed THEN f ELSE write_org_content(content.lines),
         new_nodes |-> set.new_nodes,
         existing |-> existing,
         nodes |-> set.nodes,
         run |-> IF crashed
                 THEN [NoRun EXCEPT !.n = n, !.status = "crashed"]
                 ELSE [n |-> n, status |-> "ok",
                       total_events |-> SumLen([k \in DOMAIN set.nodes |->
                                                  all_events_of(set.nodes[k])]),
                       new_events |-> SumLen([k \in DOMAIN set.nodes |->
                                                set.nodes[k].new_events]),
                       existing_preserved |-> IF stats_before.exists
                                              THEN stats_before.events ELSE 0]]

\* The rendering of the merged nodes and the statistics of the file as it is
RenderAndWrite(f, n, existing, set) ==
    WriteAndReport(f, n, existing, set, render_org_content(set.nodes),
                   get_file_content_stats(f))

generate(f, rule_list, range, n) ==
    RenderAndWrite(f, n, read_existing_content(f),
                   generate_complete_event_set(rule_list, range,
                                               read_existing_content(f),
                                               DefaultTodoState))

---------------------------------------------------------------------------
(* models/date_range.py: DateRange and its advisory warnings.

   The constructor compares datetime values and reads the clock, so here a
   datetime is a civil one: [year, month, day, tod], tod being the time of
   day in thirds of a day (0 is 00:00:00, TodLast is 23:59:59.999999). *)

YearSpan == 2        \* the civil years explored are 2023 .. 2023 + YearSpan

TodLast == 2

IsLeap(y) == y % 4 = 0 /\ (y % 100 # 0 \/ y % 400 = 0)

DaysInMonth(y, m) ==
    IF m = 2 THEN (IF IsLeap(y) THEN 29 ELSE 28)
    ELSE IF m \in {4, 6, 9, 11} THEN 30 ELSE 31

RECURSIVE DaysBeforeMonth(_, _)
DaysBeforeMonth(y, m) ==
    IF m = 1 THEN 0 ELSE DaysBeforeMonth(y, m - 1) + DaysInMonth(y, m - 1)

DateTime(y, m, d, tod) == [year |-> y, month |-> m, day |-> d, tod |-> tod]

\* date.toordinal(): day 1 is 0001-01-01
toordinal(dt) ==
    365 * (dt.year - 1) + (dt.year - 1) \div 4 - (dt.year - 1) \div 100
    + (dt.year - 1) \div 400 + DaysBeforeMonth(dt.year, dt.month) + dt.day

\* datetime.weekday(): Monday is 0
weekday(dt) == (toordinal(dt) + 6) % 7

\* The position of a datetime on the time line, for <, > and subtraction
Ticks(dt) == toordinal(dt) * (TodLast + 1) + dt.tod

\* (a - b).days
DaysBetween(a, b) == (Ticks(a) - Ticks(b)) \div (TodLast + 1)

\* dt - timedelta(days=n), for a datetime after the first of January 0001
RECURSIVE MinusDays(_, _)
MinusDays(dt, n) ==
    IF n = 0 THEN dt
    ELSE IF dt.day > 1 THEN MinusDays([dt EXCEPT !.day = @ - 1], n - 1)
    ELSE IF dt.month > 1
         THEN MinusDays([dt EXCEPT !.month = @ - 1,
                                   !.day = DaysInMonth(dt.year, dt.month - 1)], n - 1)
         ELSE MinusDays([dt EXCEPT !.year = @ - 1, !.month = 12, !.day = 31], n - 1)

\* datetime.replace(year=y) raises ValueError for a day the month of year y
\* does not have
CanReplaceYear(dt, y) == dt.day <= DaysInMonth(y, dt.month)
ReplaceYear(dt, y) == [dt EXCEPT !.year = y]

\* _check_past_dates: the warnings it appends
_check_past_dates(start_date, clock) ==
    LET today_start == [clock EXCEPT !.tod = 0]
        week_start == MinusDays(today_start, weekday(clock))
        days_past == DaysBetween(week_start, start_date)
    IN  IF Ticks(start_date) < Ticks(week_start)
        THEN <<[kind |-> IF days_past > 365 THEN "more than 1 year in the past"
                         ELSE IF days_past > 30 THEN "more than 1 month in the past"
                         ELSE IF days_past > 7 THEN "more than 1 week in the past"
                         ELSE "past dates",
                days |-> days_past]>>
        ELSE <<>>

\* years_future > 2 for years_future = years + days / 365.25
MoreThanTwoYears(years, days) == 1461 * years + 4 * days > 2922

\* _check_future_dates: raised if a replace(year=...) raised ValueError,
\* otherwise the warnings it appends
_check_future_dates(end_date, clock) ==
    IF ~CanReplaceYear(clock, clock.year + 1)
    THEN [raised |-> TRUE, warnings |-> <<>>]
    ELSE IF Ticks(end_date) > Ticks(ReplaceYear(clock, clock.year + 1))
    THEN IF ~CanReplaceYear(end_date, clock.year)
         THEN [raised |-> TRUE, warnings |-> <<>>]
         ELSE [raised |-> FALSE,
               warnings |->
                   <<[kind |-> IF MoreThanTwoYears(
                                      end_date.year - clock.year,
                                      DaysBetween(end_date,
                                                  ReplaceYear(end_date, clock.year)))
                               THEN "more than 2 years in the future"
                               ELSE "beyond 1 year in the future",
                      days |-> 0]>>]
    ELSE [raised |-> FALSE, warnings |-> <<>>]

\* DateRange(start_date=..., end_date=...) at the clock time given: raised
\* names the ValueError that left the constructor ("" if it returned)
DateRange(start_date, end_date, clock) ==
    IF Ticks(start_date) > Ticks(end_date)
    THEN [raised |-> "Start date must be before or equal to end date",
          warnings |-> <<>>]
    ELSE IF _check_future_dates(end_date, clock).raised
    THEN [raised |-> "day is out of range for month", warnings |-> <<>>]
    ELSE [raised |-> "",
          warnings |-> _check_past_dates(start_date, clock)
                       \o _check_future_dates(end_date, clock).warnings]

\* No clock read, no flags given, no DateRange constructed
NoClock == DateTime(2025, 12, 28, 0)
NoOpts == [dry_run |-> FALSE, force |-> FALSE, confirm |-> FALSE]
NotConstructed == [raised |-> "", warnings |-> <<>>]

---------------------------------------------------------------------------
(* The merge on its own: any two lists of date nodes *)

ExistingTask == OrgEvent(Title("Existing Task"), "TODO", <<>>, "", NoInstant)
CodeReview == OrgEvent(Title("Code Review"), "", <<"work">>, "", NoInstant)
NewTask == OrgEvent(Title("New Task"), "TODO", <<>>, "", NoInstant)
Planning == OrgEvent(Title("Afternoon Planning"), "TODO", <<>>, "", NoInstant)

MergeExistingNodeSet ==
    {OrgDateNode(Midnight(d), ev, <<>>) :
        d \in 0..MaxMergeDay,
        ev \in {<<>>, <<ExistingTask>>, <<CodeReview, ExistingTask>>}}

MergeNewNodeSet ==
    {OrgDateNode(Midnight(d), <<>>, ev) :
        d \in 0..MaxMergeDay, ev \in {<<NewTask>>, <<Planning>>}}

NoFile == [exists |-> FALSE, lines |-> <<>>]
NoRange == [start_date |-> 0, end_date |-> 0]

InitMerge ==
    /\ pc = "start"
    /\ new_nodes \in SeqsUpTo(MergeNewNodeSet, MaxNodes)
    /\ existing_nodes \in SeqsUpTo(MergeExistingNodeSet, MaxNodes)
    /\ merged_nodes = <<>>
    /\ existing_objs = existing_nodes
    /\ rules = <<>>
    /\ date_range = NoRange
    /\ rule_idx = 0
    /\ rule_events = <<>>
    /\ all_events = <<>>
    /\ file = NoFile
    /\ file_before = NoFile
    /\ run = NoRun
    /\ now = NoClock
    /\ opts = NoOpts
    /\ constructed = NotConstructed
    /\ cron_errors = <<>>

\* merged = EventService.merge_with_existing_nodes(new_nodes, existing_nodes)
Merge ==
    /\ pc = "start"
    /\ LET m == merge_with_existing_nodes(new_nodes, existing_nodes)
       IN  /\ merged_nodes' = m.nodes
           /\ existing_objs' = m.existing
    /\ pc' = "merged"
    /\ UNCHANGED <<new_nodes, existing_nodes, rules, date_range, rule_idx, rule_events,
                   all_events, file, file_before, run>>
    /\ UNCHANGED cli_vars

NextMerge == Merge

SpecMerge == InitMerge /\ [][NextMerge]_vars

---------------------------------------------------------------------------
(* Expansion and grouping: CronService.generate_all_events over a rule list,
   then EventService.organize_events_by_date on its result *)

EveryMidnight == Cron(TRUE, {0}, 0..6)                  \* "0 0 * * *"
EverySlot == Cron(TRUE, 0..(SlotsPerDay - 1), 0..6)     \* "* * * * *"
MondayLast == Cron(TRUE, {SlotsPerDay - 1}, {0})        \* "59 23 * * 1"
NotACron == Cron(FALSE, {}, {})                         \* "99 9 * * 1"

RuleSet ==
    { EventRule(Title("Standup"), EveryMidnight, <<"work">>, "TODO", ""),
      EventRule(Title("Focus"), EverySlot, <<>>, "", "Deep work"),
      EventRule(Title("Weekly"), MondayLast, <<>>, "DONE", ""),
      \* "Review@@2025-12-28T00:00:00"
      EventRule(<<Text("Review"), isoformat(0)>>, EveryMidnight, <<>>, "", ""),
      \* "Q3@@Sync"
      EventRule(<<Text("Q3"), Text("Sync")>>, EverySlot, <<>>, "", ""),
      EventRule(Title("Broken"), NotACron, <<>>, "", "") }

Instants == 0..((MaxDay + 1) * SlotsPerDay - 1)

\* DateRange.__post_init__ rejects start_date > end_date
DateRanges ==
    {[start_date |-> a, end_date |-> b] : a \in Instants, b \in Instants} \cap
    {r \in [start_date : Instants, end_date : Instants] : r.start_date <= r.end_date}

InitCron ==
    /\ pc = "start"
    /\ rules \in SeqsUpTo(RuleSet, MaxRules)
    /\ date_range \in DateRanges
    /\ rule_idx = 0
    /\ rule_events = <<>>
    /\ all_events = <<>>
    /\ new_nodes = <<>>
    /\ existing_nodes = <<>>
    /\ merged_nodes = <<>>
    /\ existing_objs = <<>>
    /\ file = NoFile
    /\ file_before = NoFile
    /\ run = NoRun
    /\ now = NoClock
    /\ opts = NoOpts
    /\ constructed = NotConstructed
    /\ cron_errors = <<>>

\* generate_all_events, one pass of its loop: the next rule is expanded and
\* its events are appended
GenerateRule ==
    /\ pc = "start"
    /\ rule_idx < Len(rules)
    /\ rules[rule_idx + 1].cron.valid
    /\ rule_events' = generate_events_for_rule(rules[rule_idx + 1], date_range,
                                               DefaultTodoState)
    /\ all_events' = all_events \o rule_events'
    /\ rule_idx' = rule_idx + 1
    /\ UNCHANGED <<pc, new_nodes, existing_nodes, merged_nodes, existing_objs, rules,
                   date_range, file, file_before, run>>
    /\ UNCHANGED cli_vars

\* croniter rejects the expression: ValueError leaves generate_all_events
GenerateRuleRaises ==
    /\ pc = "start"
    /\ rule_idx < Len(rules)
    /\ ~rules[rule_idx + 1].cron.valid
    /\ pc' = "raised"
    /\ UNCHANGED <<new_nodes, existing_nodes, merged_nodes, existing_objs, rules,
                   date_range, rule_idx, rule_events, all_events, file,
                   file_before, run>>
    /\ UNCHANGED cli_vars

\* organize_events_by_date(events, date_range) returns the date nodes
Organize ==
    /\ pc = "start"
    /\ rule_idx = Len(rules)
    /\ LET o == organize_events_by_date(all_events, date_range)
       IN  /\ ~o.raised
           /\ new_nodes' = o.nodes
           /\ all_events' = o.events
    /\ pc' = "organized"
    /\ UNCHANGED <<existing_nodes, merged_nodes, existing_objs, rules, date_range,
                   rule_idx, rule_events, file, file_before, run>>
    /\ UNCHANGED cli_vars

\* organize_events_by_date raises ValueError from datetime.fromisoformat
OrganizeRaises ==
    /\ pc = "start"
    /\ rule_idx = Len(rules)
    /\ LET o == organize_events_by_date(all_events, date_range)
       IN  /\ o.raised
           /\ all_events' = o.events
    /\ pc' = "raised"
    /\ UNCHANGED <<new_nodes, existing_nodes, merged_nodes, existing_objs, rules,
                   date_range, rule_idx, rule_events, file, file_before, run>>
    /\ UNCHANGED cli_vars

NextCron == GenerateRule \/ GenerateRuleRaises \/ Organize \/ OrganizeRaises

SpecCron == InitCron /\ [][NextCron]_vars

---------------------------------------------------------------------------
(* Expansion of one rule over an interval long enough for the safety check
   of generate_events_for_rule to trigger *)

\* The ends of the long intervals: around SafetyLimit instants
LongEnds == {SafetyLimit + k : k \in -1..(MaxDay + MaxRules + 3)}

InitCeiling ==
    /\ pc = "start"
    /\ rules \in {<<r>> : r \in {x \in RuleSet : x.cron.valid /\ Len(x.title) = 1}}
    /\ date_range \in [start_date : {Midnight(d) : d \in 0..MaxDay}, end_date : LongEnds]
    /\ rule_idx = 0
    /\ rule_events = <<>>
    /\ all_events = <<>>
    /\ new_nodes = <<>>
    /\ existing_nodes = <<>>
    /\ merged_nodes = <<>>
    /\ existing_objs = <<>>
    /\ file = NoFile
    /\ file_before = NoFile
    /\ run = NoRun
    /\ now = NoClock
    /\ opts = NoOpts
    /\ constructed = NotConstructed
    /\ cron_errors = <<>>

NextCeiling == GenerateRule

SpecCeiling == InitCeiling /\ [][NextCeiling]_vars

---------------------------------------------------------------------------
(* Successive generate runs against one target file *)

YearHeadline(d) == Line(1, "", Title(ToString(YearOf(d))), <<>>)
WeekHeadline(d) == Line(2, "", Title(ToString(YearOf(d)) \o "-W" \o Pad2(IsoWeekOf(d))), <<>>)
DayHeadline(d) ==
    Line(3, "", <<[date |-> {d}, tm |-> NoTime, rest |-> " " \o WeekdayAbbr(d)]>>, <<>>)
TaskHeadline(kw, s) == Line(4, kw, Title(s), <<>>)

\* The files a run may find: none, an empty one, a plan with one task, a plan
\* behind notes of the user's own, a date that has two headlines, a date
\* without tasks, a task one level deeper than the renderer puts it
TargetFiles ==
    {NoFile, [exists |-> TRUE, lines |-> <<>>]} \cup
    {[exists |-> TRUE, lines |-> l] : l \in UNION {
        { <<YearHeadline(d), WeekHeadline(d), DayHeadline(d),
            TaskHeadline("TODO", "Existing Task")>>,
          <<TextLine("#+TITLE: Plan"), Line(1, "", Title("Notes"), <<>>),
            TextLine("Call the bank"), YearHeadline(d), WeekHeadline(d),
            DayHeadline(d), TaskHeadline("", "Code Review")>>,
          <<YearHeadline(d), WeekHeadline(d), DayHeadline(d),
            TaskHeadline("TODO", "Morning Meeting"), DayHeadline(d),
            TaskHeadline("TODO", "Code Review")>>,
          <<YearHeadline(d), WeekHeadline(d), DayHeadline(d)>>,
          <<YearHeadline(d), WeekHeadline(d), DayHeadline(d),
            Line(5, "TODO", Title("Deep Task"), <<>>)>> } : d \in 0..MaxDay}}

\* The rules of a run: their cron expressions have passed validation, and
\* the schema check has rejected an empty list of events
CommandRuleSet == {r \in RuleSet : r.cron.valid /\ r.title[1].rest # "Focus"}

\* DateService.parse_date_range: from the start of the first day to the end
\* of the last day
CommandDateRanges ==
    {[start_date |-> Midnight(a), end_date |-> Midnight(b) + SlotsPerDay - 1] :
        a \in 0..MaxDay, b \in 0..MaxDay} \cap DateRanges

InitGenerate ==
    /\ pc = "idle"
    /\ file \in TargetFiles
    /\ file_before = file
    /\ rules \in SeqsUpTo(CommandRuleSet, MaxRules) \ {<<>>}
    /\ date_range \in CommandDateRanges
    /\ run = NoRun
    /\ rule_idx = 0
    /\ rule_events = <<>>
    /\ all_events = <<>>
    /\ new_nodes = <<>>
    /\ existing_nodes = <<>>
    /\ merged_nodes = <<>>
    /\ existing_objs = <<>>
    /\ now = NoClock
    /\ opts = NoOpts
    /\ constructed = NotConstructed
    /\ cron_errors = <<>>

\* One run of the command that reaches its end: the file is written
Generate ==
    /\ run.n < MaxRuns
    /\ LET g == generate(file, rules, date_range, run.n + 1)
       IN  /\ g.run.status = "ok"
           /\ file' = g.file
           /\ run' = g.run
           /\ new_nodes' = g.new_nodes
           /\ existing_nodes' = g.existing
           /\ merged_nodes' = g.nodes
    /\ file_before' = file
    /\ UNCHANGED <<pc, existing_objs, rules, date_range, rule_idx, rule_events, all_events>>
    /\ UNCHANGED cli_vars

\* One run of the command ended by an exception: nothing is written
GenerateCrashes ==
    /\ run.n < MaxRuns
    /\ LET g == generate(file, rules, date_range, run.n + 1)
       IN  /\ g.run.status = "crashed"
           /\ run' = g.run
           /\ new_nodes' = g.new_nodes
           /\ existing_nodes' = g.existing
           /\ merged_nodes' = g.nodes
    /\ file_before' = file
    /\ UNCHANGED <<pc, file, existing_objs, rules, date_range, rule_idx, rule_events,
                   all_events>>
    /\ UNCHANGED cli_vars

NextGenerate == Generate \/ GenerateCrashes

SpecGenerate == InitGenerate /\ [][NextGenerate]_vars

---------------------------------------------------------------------------
(* DateRange construction on its own: any two datetimes, at any clock time *)

Years == {2023 + k : k \in 0..YearSpan}

\* The days of the year explored: around the end of February, and the ends
\* of the year
MonthDays == {<<1, 1>>, <<2, 20>>, <<2, 28>>, <<2, 29>>, <<3, 1>>, <<12, 31>>}

CivilDateTimes(tods) ==
    {dt \in {DateTime(y, md[1], md[2], tod) : y \in Years, md \in MonthDays, tod \in tods} :
        dt.day <= DaysInMonth(dt.year, dt.month)}

ClockTimes == CivilDateTimes({1})

InitDateRange ==
    /\ pc = "start"
    /\ now \in ClockTimes
    /\ date_range \in [start_date : CivilDateTimes({0, TodLast}),
                       end_date : CivilDateTimes({0, TodLast})]
    /\ constructed = NotConstructed
    /\ opts = NoOpts
    /\ cron_errors = <<>>
    /\ rules = <<>>
    /\ rule_idx = 0
    /\ rule_events = <<>>
    /\ all_events = <<>>
    /\ new_nodes = <<>>
    /\ existing_nodes = <<>>
    /\ merged_nodes = <<>>
    /\ existing_objs = <<>>
    /\ file = NoFile
    /\ file_before = NoFile
    /\ run = NoRun

\* DateRange(start_date, end_date) returns the object
Construct ==
    /\ pc = "start"
    /\ LET r == DateRange(date_range.start_date, date_range.end_date, now)
       IN  /\ r.raised = ""
           /\ constructed' = r
    /\ pc' = "constructed"
    /\ UNCHANGED <<new_nodes, existing_nodes, merged_nodes, existing_objs, rules,
                   date_range, rule_idx, rule_events, all_events, file, file_before,
                   run, now, opts, cron_errors>>

\* DateRange(start_date, end_date) raises ValueError
ConstructRaises ==
    /\ pc = "start"
    /\ LET r == DateRange(date_range.start_date, date_range.end_date, now)
       IN  /\ r.raised # ""
           /\ constructed' = r
    /\ pc' = "raised"
    /\ UNCHANGED <<new_nodes, existing_nodes, merged_nodes, existing_objs, rules,
                   date_range, rule_idx, rule_events, all_events, file, file_before,
                   run, now, opts, cron_errors>>

NextDateRange == Construct \/ ConstructRaises

SpecDateRange == InitDateRange /\ [][NextDateRange]_vars

---------------------------------------------------------------------------
(* The generate command from the validation of the cron expressions on
   (cli/generate.py:241): the rules file has been parsed into event_rules,
   --from and --to are given as dates.  The command ends by returning
   (exit code 0), by click.Abort() or by an exception nobody catches (exit
   code 1). *)

\* validate_cron_expression(cron_expr, rule_title): the errors for an
\* expression croniter does not accept (or that has not five fields).  The
\* checks on single fields that follow add an error only to an expression
\* croniter accepts with the weekday written 7; no rule here is written so.
validate_cron_expression(cron, rule_title) ==
    IF ~cron.valid THEN <<[rule |-> rule_title, error |-> "Invalid cron expression"]>>
    ELSE <<>>

\* cron_errors: the errors of every rule, in rule order
CronErrors_FirstOnly(rule_list) ==
    LET all == Concat([i \in DOMAIN rule_list |->
                          validate_cron_expression(rule_list[i].cron, rule_list[i].title)])
    IN  IF all = <<>> THEN <<>> ELSE <<Head(all)>>

CronErrors(rule_list) ==
    Concat([i \in DOMAIN rule_list |->
               validate_cron_expression(rule_list[i].cron, rule_list[i].title)])

\* The civil date of day d: day 0 is 2025-12-28
CivilOfDay(d) ==
    IF d <= 3 THEN DateTime(2025, 12, 28 + d, 0) ELSE DateTime(2026, 1, d - 3, 0)

\* DateService.parse_date_range(from_str, to_str): from the start of the
\* first day to the end of the last
parse_date_range(from_day, to_day, clock) ==
    DateRange(CivilOfDay(from_day), [CivilOfDay(to_day) EXCEPT !.tod = TodLast], clock)

\* DateRange.has_past_dates, has_distant_future_dates
has_past_dates(start_date, clock) ==
    Ticks(start_date) < Ticks(MinusDays([clock EXCEPT !.tod = 0], weekday(clock)))
has_distant_future_dates(end_date, clock) ==
    Ticks(end_date) > Ticks(ReplaceYear(clock, clock.year + 1))

\* DateService.validate_date_range(date_range, force): FALSE if the user
\* answered no to a prompt.  confirm is the user's answer to every prompt.
validate_date_range(start_date, end_date, warnings, clock, force, confirm) ==
    LET prompted ==
            \/ has_past_dates(start_date, clock)
            \/ (has_distant_future_dates(end_date, clock)
                /\ end_date.year - clock.year > 1)
            \/ warnings # <<>>
    IN  force \/ ~prompted \/ confirm

\* if dry_run: ... return
DryRunReturns(options) == options.dry_run

\* The command ended before the pipeline: nothing generated, nothing written
Ended(status, f, errors, range_made, n) ==
    [file |-> f, cron_errors |-> errors, constructed |-> range_made,
     new_nodes |-> <<>>, existing |-> <<>>, nodes |-> <<>>,
     run |-> [NoRun EXCEPT !.n = n, !.status = status]]

\* The command from the dry-run check on
CommandAfterValidation(f, rule_list, range, options, n, range_made) ==
    IF DryRunReturns(options) THEN Ended("dry_run", f, <<>>, range_made, n)
    ELSE IF \E i \in DOMAIN rule_list : ~rule_list[i].cron.valid
    THEN \* generate_events_for_rule raises ValueError for the expression
         Ended("crashed", f, <<>>, range_made, n)
    ELSE [cron_errors |-> <<>>, constructed |-> range_made]
         @@ generate(f, rule_list, range, n)

\* The command from the parsing of the date range on
CommandAfterCron(f, rule_list, range, clock, options, n, range_made) ==
    IF range_made.raised # "" THEN Ended("date_range", f, <<>>, range_made, n)
    ELSE IF ~validate_date_range(CivilOfDay(DateOf(range.start_date)),
                                 [CivilOfDay(DateOf(range.end_date)) EXCEPT !.tod = TodLast],
                                 range_made.warnings, clock, options.force,
                                 options.confirm)
    THEN Ended("date_validation", f, <<>>, range_made, n)
    ELSE CommandAfterValidation(f, rule_list, range, options, n, range_made)

\* status of the run: "cron_validation" and "date_validation" are the two
\* click.Abort() ends, "date_range" and "crashed" the uncaught exceptions,
\* "dry_run" and "ok" the returns
generate_command(f, rule_list, range, clock, options, n, errors) ==
    IF errors # <<>> THEN Ended("cron_validation", f, errors, NotConstructed, n)
    ELSE CommandAfterCron(f, rule_list, range, clock, options, n,
                          parse_date_range(DateOf(range.start_date),
                                           DateOf(range.end_date), clock))

\* The exit code of a run
ExitCode(r) == IF r.status \in {"ok", "dry_run"} THEN 0 ELSE 1

---------------------------------------------------------------------------
(* One run of the generate command: any flags, any clock time, rule lists
   with and without invalid cron expressions *)

CliRuleSet ==
    {r \in RuleSet : r.title \in {Title("Standup"), Title("Weekly"), Title("Broken")}}
    \cup {EventRule(Title("Malformed"), NotACron, <<"work">>, "", "")}

\* No target file, a plan with one task, notes of the user's own
CliFiles ==
    {NoFile,
     [exists |-> TRUE,
      lines |-> <<YearHeadline(0), WeekHeadline(0), DayHeadline(0),
                  TaskHeadline("TODO", "Existing Task")>>],
     [exists |-> TRUE,
      lines |-> <<TextLine("#+TITLE: Plan"), Line(1, "", Title("Notes"), <<>>)>>]}

\* A Sunday within the days generated for, a Monday after them, a 29 February
CliClockTimes ==
    {DateTime(2025, 12, 28, 1), DateTime(2026, 1, 5, 1), DateTime(2024, 2, 29, 1)}

InitCommand ==
    /\ pc = "idle"
    /\ file \in CliFiles
    /\ file_before = file
    /\ rules \in SeqsUpTo(CliRuleSet, MaxRules) \ {<<>>}
    /\ date_range \in {[start_date |-> Midnight(a), end_date |-> Midnight(b) + SlotsPerDay - 1] :
                          a \in 0..MaxDay, b \in 0..MaxDay}
    /\ now \in CliClockTimes
    /\ opts \in [dry_run : BOOLEAN, force : BOOLEAN, confirm : BOOLEAN]
    /\ constructed = NotConstructed
    /\ cron_errors = <<>>
    /\ run = NoRun
    /\ rule_idx = 0
    /\ rule_events = <<>>
    /\ all_events = <<>>
    /\ new_nodes = <<>>
    /\ existing_nodes = <<>>
    /\ merged_nodes = <<>>
    /\ existing_objs = <<>>

\* click.Abort(): cron validation errors, or the user's no to a prompt
CommandAborts ==
    /\ run.n = 0
    /\ LET g == generate_command(file, rules, date_range, now, opts, 1, CronErrors(rules))
       IN  /\ g.run.status \in {"cron_validation", "date_validation"}
           /\ file' = g.file
           /\ run' = g.run
           /\ cron_errors' = g.cron_errors
           /\ constructed' = g.constructed
           /\ new_nodes' = g.new_nodes
           /\ existing_nodes' = g.existing
           /\ merged_nodes' = g.nodes
    /\ file_before' = file
    /\ UNCHANGED <<pc, existing_objs, rules, date_range, rule_idx, rule_events,
                   all_events, now, opts>>

\* An exception nobody catches
CommandCrashes ==
    /\ run.n = 0
    /\ LET g == generate_command(file, rules, date_range, now, opts, 1, CronErrors(rules))
       IN  /\ g.run.status \in {"date_range", "crashed"}
           /\ file' = g.file
           /\ run' = g.run
           /\ cron_errors' = g.cron_errors
           /\ constructed' = g.constructed
           /\ new_nodes' = g.new_nodes
           /\ existing_nodes' = g.existing
           /\ merged_nodes' = g.nodes
    /\ file_before' = file
    /\ UNCHANGED <<pc, existing_objs, rules, date_range, rule_idx, rule_events,
                   all_events, now, opts>>

\* --dry-run: the command returns before it reads or writes the target file
CommandDryRun ==
    /\ run.n = 0
    /\ LET g == generate_command(file, rules, date_range, now, opts, 1, CronErrors(rules))
       IN  /\ g.run.status \in {"dry_run"}
           /\ file' = g.file
           /\ run' = g.run
           /\ cron_errors' = g.cron_errors
           /\ constructed' = g.constructed
           /\ new_nodes' = g.new_nodes
           /\ existing_nodes' = g.existing
           /\ merged_nodes' = g.nodes
    /\ file_before' = file
    /\ UNCHANGED <<pc, existing_objs, rules, date_range, rule_idx, rule_events,
                   all_events, now, opts>>

\* The command writes the target file and returns
CommandWrites ==
    /\ run.n = 0
    /\ LET g == generate_command(file, rules, date_range, now, opts, 1, CronErrors(rules))
       IN  /\ g.run.status \in {"ok"}
           /\ file' = g.file
           /\ run' = g.run
           /\ cron_errors' = g.cron_errors
           /\ constructed' = g.constructed
           /\ new_nodes' = g.new_nodes
           /\ existing_nodes' = g.existing
           /\ merged_nodes' = g.nodes
    /\ file_before' = file
    /\ UNCHANGED <<pc, existing_objs, rules, date_range, rule_idx, rule_events,
                   all_events, now, opts>>

NextCommand == CommandAborts \/ CommandCrashes \/ CommandDryRun \/ CommandWrites

SpecCommand == InitCommand /\ [][NextCommand]_vars

---------------------------------------------------------------------------
(* Render, write, read back: render_org_content on a list of date nodes,
   write_org_content of the text, read_existing_content of the file *)

RoundTripNodeSet ==
    {OrgDateNode(Midnight(d), ex, nw) :
        d \in {NewYearsDay} \cup 0..MaxMergeDay,
        ex \in {<<>>, <<ExistingTask>>, <<CodeReview>>},
        nw \in {<<>>, <<NewTask>>}}

InitRoundTrip ==
    /\ pc = "start"
    /\ merged_nodes \in SeqsUpTo(RoundTripNodeSet, MaxNodes)
    /\ file = NoFile
    /\ file_before = NoFile
    /\ existing_nodes = <<>>
    /\ new_nodes = <<>>
    /\ existing_objs = <<>>
    /\ rules = <<>>
    /\ date_range = NoRange
    /\ rule_idx = 0
    /\ rule_events = <<>>
    /\ all_events = <<>>
    /\ run = NoRun
    /\ now = NoClock
    /\ opts = NoOpts
    /\ constructed = NotConstructed
    /\ cron_errors = <<>>

\* content = render_org_content(nodes); write_org_content(content, path)
RenderAndWriteFile ==
    /\ pc = "start"
    /\ LET content == render_org_content(merged_nodes)
       IN  /\ ~content.raised
           /\ file' = write_org_content(content.lines)
    /\ file_before' = file
    /\ pc' = "written"
    /\ UNCHANGED <<new_nodes, existing_nodes, merged_nodes, existing_objs, rules,
                   date_range, rule_idx, rule_events, all_events, run>>
    /\ UNCHANGED cli_vars

\* render_org_content(nodes) raises
RenderRaises ==
    /\ pc = "start"
    /\ render_org_content(merged_nodes).raised
    /\ pc' = "render_raised"
    /\ UNCHANGED <<new_nodes, existing_nodes, merged_nodes, existing_objs, rules,
                   date_range, rule_idx, rule_events, all_events, file, file_before,
                   run>>
    /\ UNCHANGED cli_vars

\* read_existing_content(path) on the file written
ReadBack ==
    /\ pc = "written"
    /\ existing_nodes' = read_existing_content(file)
    /\ pc' = "read_back"
    /\ UNCHANGED <<new_nodes, merged_nodes, existing_objs, rules, date_range,
                   rule_idx, rule_events, all_events, file, file_before, run>>
    /\ UNCHANGED cli_vars

NextRoundTrip == RenderAndWriteFile \/ RenderRaises \/ ReadBack

SpecRoundTrip == InitRoundTrip /\ [][NextRoundTrip]_vars

---------------------------------------------------------------------------
(* An existing file on its own: read_existing_content of it, and
   FileService.merge_with_existing_content of new date nodes with it *)

\* The headlines found under a date headline: two tasks, a subtask one level
\* deeper, a status keyword without a title
DateChildren ==
    { TaskHeadline("TODO", "Existing Task"),
      Line(4, "", Title("Code Review"), <<"work">>),
      Line(5, "", Title("Subtask"), <<>>),
      TaskHeadline("INPROGRESS", "") }

\* The date headline of day d with the headlines under it
DateSection(d, children) == <<DayHeadline(d)>> \o children

\* The plans that begin with the date node of day d: that node alone, or
\* followed by the node of the day after
PlansOfDay(d) ==
    {[exists |-> TRUE,
      lines |-> <<YearHeadline(d), WeekHeadline(d)>> \o DateSection(d, c) \o more] :
        c \in SeqsUpTo(DateChildren, MaxNodes),
        more \in {<<>>, DateSection((d + 1) % (MaxMergeDay + 1),
                                    <<TaskHeadline("TODO", "Morning Meeting")>>)}}

\* No file, or a plan
ExistingFiles == {NoFile} \cup UNION {PlansOfDay(d) : d \in 0..MaxMergeDay}

InitFile ==
    /\ pc = "start"
    /\ file \in ExistingFiles
    /\ file_before = file
    /\ new_nodes \in SeqsUpTo({OrgDateNode(Midnight(d), <<>>, <<NewTask>>) :
                                  d \in 0..MaxMergeDay}, MaxNodes)
    /\ existing_nodes = <<>>
    /\ merged_nodes = <<>>
    /\ existing_objs = <<>>
    /\ rules = <<>>
    /\ date_range = NoRange
    /\ rule_idx = 0
    /\ rule_events = <<>>
    /\ all_events = <<>>
    /\ run = NoRun
    /\ now = NoClock
    /\ opts = NoOpts
    /\ constructed = NotConstructed
    /\ cron_errors = <<>>

\* existing_nodes = OrgModeParser.read_existing_content(path)
ReadFile ==
    /\ pc = "start"
    /\ existing_nodes' = read_existing_content(file)
    /\ pc' = "read"
    /\ UNCHANGED <<new_nodes, merged_nodes, existing_objs, rules, date_range,
                   rule_idx, rule_events, all_events, file, file_before, run>>
    /\ UNCHANGED cli_vars

\* merged = FileService.merge_with_existing_content(new_nodes, path)
MergeWithExistingContent ==
    /\ pc = "start"
    /\ merged_nodes' = merge_with_existing_content(new_nodes, file)
    /\ pc' = "file_merged"
    /\ UNCHANGED <<new_nodes, existing_nodes, existing_objs, rules, date_range,
                   rule_idx, rule_events, all_events, file, file_before, run>>
    /\ UNCHANGED cli_vars

NextFile == ReadFile \/ MergeWithExistingContent

SpecFile == InitFile /\ [][NextFile]_vars

---------------------------------------------------------------------------
(* Claims about the merge *)

DatesOf(nodes) == {DateKey(nodes[i]) : i \in DOMAIN nodes}

\* C1: merge preservation.  For every date node of the existing input, with
\* existing-event list E, the result has a node of that date whose
\* existing_events is E (same events, same order).
C1_MergePreservation ==
    pc = "merged" =>
        \A i \in DOMAIN existing_nodes :
            \E k \in DOMAIN merged_nodes :
                /\ DateKey(merged_nodes[k]) = DateKey(existing_nodes[i])
                /\ merged_nodes[k].existing_events = existing_nodes[i].existing_events

\* C2: the result of the merge holds at most one date node per calendar date.
C2_OneNodePerDate ==
    pc = "merged" =>
        \A k1, k2 \in DOMAIN merged_nodes :
            DateKey(merged_nodes[k1]) = DateKey(merged_nodes[k2]) => k1 = k2

\* The nodes of a list that carry date d, in list order
RECURSIVE NodesOfDate(_, _)
NodesOfDate(nodes, d) ==
    IF nodes = <<>> THEN <<>>
    ELSE IF DateKey(Head(nodes)) = d
         THEN <<Head(nodes)>> \o NodesOfDate(Tail(nodes), d)
         ELSE NodesOfDate(Tail(nodes), d)

\* C3: the result of the merge is sorted ascending by date, its dates are the
\* union of the dates of the two inputs, and the nodes of a date that only one
\* input has are that input's nodes, unchanged.
C3_MergeSortedUnion ==
    pc = "merged" =>
        /\ \A k \in 1..(Len(merged_nodes) - 1) :
               merged_nodes[k].date <= merged_nodes[k + 1].date
        /\ DatesOf(merged_nodes) = DatesOf(new_nodes) \cup DatesOf(existing_nodes)
        /\ \A d \in DatesOf(new_nodes) \ DatesOf(existing_nodes) :
               NodesOfDate(merged_nodes, d) = NodesOfDate(new_nodes, d)
        /\ \A d \in DatesOf(existing_nodes) \ DatesOf(new_nodes) :
               NodesOfDate(merged_nodes, d) = NodesOfDate(existing_nodes, d)

\* A merge of a later new-only date listed before an earlier existing-only date
C3_Witness ==
    /\ pc = "merged"
    /\ \E j \in DOMAIN new_nodes, i \in DOMAIN existing_nodes :
           /\ DateKey(new_nodes[j]) \notin DatesOf(existing_nodes)
           /\ DateKey(existing_nodes[i]) \notin DatesOf(new_nodes)
           /\ DateKey(existing_nodes[i]) < DateKey(new_nodes[j])
           /\ existing_nodes[i].existing_events # <<>>

---------------------------------------------------------------------------
(* Claims about expansion and grouping *)

\* rule_events is the result of generate_events_for_rule for this rule
ExpandedRule == rules[rule_idx]

\* C7: expansion boundedness.  Every event generate_events_for_rule returns
\* was computed for an instant within [start_date, end_date].
C7_ExpansionBounded ==
    rule_idx >= 1 =>
        \A k \in DOMAIN rule_events :
            /\ rule_events[k].instant # NoInstant
            /\ \A t \in rule_events[k].instant :
                   date_range.start_date <= t /\ t <= date_range.end_date

\* An expansion that returned events up to the last instant of the range,
\* with matching instants beyond the range
C7_Witness ==
    /\ rule_idx >= 1
    /\ Len(rule_events) >= 2
    /\ rule_events[Len(rule_events)].instant = {date_range.end_date}
    /\ Matches(ExpandedRule.cron, date_range.end_date + 1)

\* C8: expansion ordering.  The events generate_events_for_rule returns are in
\* non-decreasing order of their instants.
C8_ExpansionOrdered ==
    rule_idx >= 1 =>
        \A i, j \in DOMAIN rule_events :
            i < j => \A t \in rule_events[i].instant, u \in rule_events[j].instant : t <= u

C8_Witness ==
    /\ rule_idx >= 1
    /\ Len(rule_events) >= 3

\* C9: expansion completeness over the closed interval.  For every instant t
\* with start_date <= t <= end_date that matches the rule's cron expression,
\* start_date and end_date included, generate_events_for_rule returns an event.
C9_ExpansionComplete ==
    rule_idx >= 1 =>
        \A t \in date_range.start_date..date_range.end_date :
            Matches(ExpandedRule.cron, t) =>
                \E k \in DOMAIN rule_events : rule_events[k].instant = {t}

\* C10: grouping correctness.  Every event organize_events_by_date places in
\* the node of date d was computed for an instant whose calendar date is d.
C10_GroupedUnderOwnDate ==
    pc = "organized" =>
        \A n \in DOMAIN new_nodes :
            \A k \in DOMAIN new_nodes[n].new_events :
                \A t \in new_nodes[n].new_events[k].instant :
                    DateOf(t) = DateKey(new_nodes[n])

\* The events the date nodes hold as new events, in node order
GroupedEvents(nodes) == Concat([n \in DOMAIN nodes |-> nodes[n].new_events])

\* How often e occurs in the sequence s
Count(s, e) == Cardinality({k \in DOMAIN s : s[k] = e})

\* The calendar dates of the instants the events were computed for
OccurrenceDates(events) ==
    {DateOf(t) : t \in UNION {events[k].instant : k \in DOMAIN events}}

\* C11: organize_events_by_date returns exactly one date node per distinct
\* calendar date among the input occurrences, sorted ascending by date, with
\* every input occurrence exactly once in some node's new_events and every
\* node's existing_events empty.
C11_OneNodePerOccurrenceDate ==
    pc = "organized" =>
        /\ DatesOf(new_nodes) = OccurrenceDates(all_events)
        /\ \A i, j \in DOMAIN new_nodes :
               i < j => DateKey(new_nodes[i]) < DateKey(new_nodes[j])
        /\ \A k \in DOMAIN all_events :
               Count(GroupedEvents(new_nodes), all_events[k]) =
                   Count(all_events, all_events[k])
        /\ Len(GroupedEvents(new_nodes)) = Len(all_events)
        /\ \A n \in DOMAIN new_nodes : new_nodes[n].existing_events = <<>>

\* C12: organize_events_by_date has no side effects: the input events are
\* after the call what they were before it, titles included, and a second
\* call on the same list and date range returns the grouping the first
\* call returned.
C12_OrganizeIsPure ==
    [][(pc = "start" /\ pc' = "organized") =>
           /\ all_events' = all_events
           /\ organize_events_by_date(all_events', date_range').nodes = new_nodes']_vars

---------------------------------------------------------------------------
(* Claims about runs against a target file *)

\* The headline a headline hangs under: the nearest earlier headline with
\* fewer asterisks (0 if there is none)
Parent(lines, k) ==
    LET above == {j \in 1..(k - 1) : IsHeadline(lines[j]) /\ lines[j].stars < lines[k].stars}
    IN  IF above = {} THEN 0 ELSE SetMax(above)

\* The headlines of day d that the reader recognises as date nodes
DateHeadlines(f, d) ==
    {i \in DOMAIN f.lines :
        IsHeadline(f.lines[i]) /\ _is_date_node(f.lines[i]) /\ f.lines[i].title[1].date = {d}}

\* The titles of the occurrences under the date nodes of day d, in file order
RECURSIVE TitlesAt(_, _)
TitlesAt(lines, ks) == IF ks = <<>> THEN <<>> ELSE <<lines[Head(ks)].title>> \o TitlesAt(lines, Tail(ks))

OccurrenceTitles(f, d) ==
    TitlesAt(f.lines,
             SortedDays({k \in DOMAIN f.lines :
                            IsHeadline(f.lines[k]) /\ Parent(f.lines, k) \in DateHeadlines(f, d)}))

\* The titles of the events generated by the run for day d
GeneratedTitles(d) ==
    LET of_day == SelectSeq(new_nodes, LAMBDA n : DateKey(n) = d)
    IN  Concat([k \in DOMAIN of_day |->
                   [e \in DOMAIN of_day[k].new_events |-> of_day[k].new_events[e].title]])

InDateNode(lines, k) ==
    \E i \in 1..k : IsHeadline(lines[i]) /\ _is_date_node(lines[i])
                    /\ k <= SubtreeEnd(lines, i, i + 1)
HoldsDateNode(lines, k) ==
    \E i \in k..SubtreeEnd(lines, k, k + 1) : IsHeadline(lines[i]) /\ _is_date_node(lines[i])
Owner(lines, k) == SetMax({0} \cup {j \in 1..k : IsHeadline(lines[j])})
UnrelatedLines(f) ==
    {f.lines[k] : k \in
        {k \in DOMAIN f.lines :
            LET h == Owner(f.lines, k)
            IN  h = 0 \/ (~InDateNode(f.lines, h) /\ ~HoldsDateNode(f.lines, h))}}

---------------------------------------------------------------------------
(* Claims about DateRange *)

\* C16: DateRange construction fails with an error whenever start_date is
\* strictly after end_date, and succeeds whenever start_date <= end_date
\* (start_date = end_date included).
C16_FailsIffStartAfterEnd ==
    pc \in {"constructed", "raised"} =>
        (pc = "raised") = (Ticks(date_range.start_date) > Ticks(date_range.end_date))

\* C17: the past/future warning computation never blocks construction: for
\* every start_date <= end_date and every clock time, 29 February included
\* as the current date or as the end date, construction succeeds and the
\* warnings are only recorded in the warnings list.
C17_WarningsNeverBlock ==
    (pc \in {"constructed", "raised"}
     /\ Ticks(date_range.start_date) <= Ticks(date_range.end_date)) =>
        /\ pc = "constructed"
        /\ constructed.raised = ""

---------------------------------------------------------------------------
(* Claims about rendering and reading back *)

\* No date node of the list is without occurrences
NoDegenerateNode(nodes) ==
    \A n \in DOMAIN nodes : all_events_of(nodes[n]) # <<>>

\* The event read has the title, the status keyword and the tag set of e
SameOccurrence(read, e) ==
    /\ read.title = e.title
    /\ read.todo_state = e.todo_state
    /\ Range(read.tags) = Range(e.tags)

\* C13: render/read round trip.  For a list C of date nodes none of which is
\* without occurrences, rendering C, writing the text and reading the file
\* gives, for each date of C, existing_events that hold every occurrence of
\* C of that date (equal title, status keyword and tag set), and new_events
\* empty.  (An OrgEvent has no body to compare.)
C13_RoundTrip ==
    (pc \in {"render_raised", "read_back"} /\ merged_nodes # <<>>
     /\ NoDegenerateNode(merged_nodes)) =>
        /\ pc = "read_back"
        /\ \A n \in DOMAIN merged_nodes :
               \A k \in DOMAIN all_events_of(merged_nodes[n]) :
                   \E r \in DOMAIN existing_nodes :
                       /\ DateKey(existing_nodes[r]) = DateKey(merged_nodes[n])
                       /\ existing_nodes[r].new_events = <<>>
                       /\ \E x \in DOMAIN existing_nodes[r].existing_events :
                              SameOccurrence(existing_nodes[r].existing_events[x],
                                             all_events_of(merged_nodes[n])[k])

---------------------------------------------------------------------------
(* Claims about a second run with the same rules and interval *)

---------------------------------------------------------------------------
(* Claims about the safety check of the expander *)

\* C20: per-rule hard ceiling.  generate_events_for_rule never returns more
\* than 10,000 occurrences for one rule, whatever the rule and the interval.
C20_AtMostSafetyLimit ==
    rule_idx >= 1 => Len(rule_events) <= SafetyLimit

---------------------------------------------------------------------------
(* Claims about the generate command *)

\* The rules of the list whose cron expression is invalid
InvalidRules(rule_list) == {i \in DOMAIN rule_list : ~rule_list[i].cron.valid}

ValidationPasses ==
    /\ InvalidRules(rules) = {}
    /\ date_range.start_date <= date_range.end_date
    /\ validate_date_range(CivilOfDay(DateOf(date_range.start_date)),
                           [CivilOfDay(DateOf(date_range.end_date)) EXCEPT !.tod = TodLast],
                           constructed.warnings, now, opts.force, opts.confirm)

DryRunNeverWrites ==
    (run.n >= 1 /\ opts.dry_run) => file = file_before

---------------------------------------------------------------------------
(* Claims about reading an existing file *)

\* The titles of the occurrences read for day d, in the order read
ReadTitles(nodes, d) ==
    LET of_day == SelectSeq(nodes, LAMBDA n : DateKey(n) = d)
    IN  Concat([k \in DOMAIN of_day |->
                   [e \in DOMAIN of_day[k].existing_events |->
                       of_day[k].existing_events[e].title]])

\* The direct child headlines of the date headlines of day d that have a
\* heading, in file order
DirectChildren(f, d) ==
    SortedDays({k \in DOMAIN f.lines :
                   /\ IsHeadline(f.lines[k])
                   /\ HeadingNonEmpty(f.lines[k])
                   /\ ~IsBlankTitle(f.lines[k].title)
                   /\ Parent(f.lines, k) \in DateHeadlines(f, d)})

\* C21: read_existing_content returns as the occurrences of a date node
\* exactly the direct child headlines of the date headline: not the date
\* headline itself, not the headlines nested deeper.
C21_DirectChildrenOnly ==
    pc = "read" =>
        \A d \in 0..MaxMergeDay :
            ReadTitles(existing_nodes, d) = TitlesAt(file.lines, DirectChildren(file, d))

\* A child headline that cannot be turned into an occurrence: a status
\* keyword followed by an empty title
Malformed(l) == IsHeadline(l) /\ l.kw # "" /\ IsBlankTitle(l.title)

\* C22: a malformed child headline is skipped on its own: when a file has
\* one, every other occurrence of the file, under the same date node or under
\* another, is still returned by read_existing_content.
C22_MalformedSkippedAlone ==
    (pc = "read" /\ \E k \in DOMAIN file.lines : Malformed(file.lines[k])) =>
        \A d \in 0..MaxMergeDay :
            Range(TitlesAt(file.lines, DirectChildren(file, d)))
                \subseteq Range(ReadTitles(existing_nodes, d))

\* C27: the two merges agree: merge_with_existing_content(new_nodes, path)
\* returns the list of nodes that merge_with_existing_nodes(new_nodes,
\* read_existing_content(path)) returns.
C27_MergesAgree ==
    pc = "file_merged" =>
        merged_nodes =
            merge_with_existing_nodes(new_nodes, read_existing_content(file)).nodes

---------------------------------------------------------------------------
(* Claims about the rendered text *)

\* The positions of the headlines of depth n in a list of lines, in order
HeadlinesOfDepth(lines, n) ==
    SortedDays({k \in DOMAIN lines : IsHeadline(lines[k]) /\ lines[k].stars = n})

\* The date a date heading shows
HeadingDate(l) == CHOOSE d \in l.title[1].date : TRUE

\* C23: render_org_content emits the date headings in ascending
\* chronological order for any input collection: the dates of the date
\* headings never decrease from top to bottom, the first and last days of a
\* calendar year included.
C23_DateHeadingsAscend ==
    pc = "written" =>
        \A i, j \in Range(HeadlinesOfDepth(file.lines, 3)) :
            i < j => HeadingDate(file.lines[i]) <= HeadingDate(file.lines[j])

OneNodePerDate(nodes) ==
    \A a, b \in DOMAIN nodes : DateKey(nodes[a]) = DateKey(nodes[b]) => a = b

\* The number of '* ', '** ' and '*** ' headings is the number of distinct
\* years, of distinct (year, week) pairs and of date nodes
HeadingCounts(lines, nodes) ==
    /\ Len(HeadlinesOfDepth(lines, 1)) =
           Cardinality({year(nodes[n]) : n \in DOMAIN nodes})
    /\ Len(HeadlinesOfDepth(lines, 2)) =
           Cardinality({<<year(nodes[n]), week(nodes[n])>> : n \in DOMAIN nodes})
    /\ Len(HeadlinesOfDepth(lines, 3)) = Len(nodes)

\* C24: for a non-empty collection with one node per date the rendered text
\* has one year heading per distinct year, one week heading per distinct
\* (year, week) pair, one date heading per date node and one occurrence
\* heading per occurrence; an empty collection renders to the empty string.
C24_HeadingCounts ==
    (pc \in {"written", "render_raised"} /\ OneNodePerDate(merged_nodes)) =>
        /\ pc = "written"
        /\ merged_nodes = <<>> => file.lines = <<>>
        /\ merged_nodes # <<>> =>
               /\ HeadingCounts(file.lines, merged_nodes)
               /\ Len(HeadlinesOfDepth(file.lines, 4)) =
                      SumLen([n \in DOMAIN merged_nodes |-> all_events_of(merged_nodes[n])])

\* What does hold: a collection that renders has the three heading counts
RenderedHeadingCounts ==
    (pc = "written" /\ OneNodePerDate(merged_nodes)) =>
        HeadingCounts(file.lines, merged_nodes)

\* C29: the week label identifies one ISO week: two date nodes rendered
\* under the same '** <week>' heading have dates at most 6 days apart.
C29_WeekLabelIsOneWeek ==
    pc = "written" =>
        \A i, j \in Range(HeadlinesOfDepth(file.lines, 3)) :
            Parent(file.lines, i) = Parent(file.lines, j) =>
                HeadingDate(file.lines[i]) - HeadingDate(file.lines[j]) <= 6

---------------------------------------------------------------------------
(* Claims about the tiers of the future warning *)

\* The future warnings among the warnings of the DateRange constructed
FutureWarnings ==
    SelectSeq(constructed.warnings,
              LAMBDA w : w.kind \in {"more than 2 years in the future",
                                     "beyond 1 year in the future"})

\* C25: a future warning is added exactly when end_date is more than one
\* year after now; it is the 'more than 2 years in the future' warning
\* exactly when end_date is more than 2 x 365 days after now, and the
\* 'beyond 1 year' warning when end_date is between one and two years away.
C25_FutureTiers ==
    pc = "constructed" =>
        LET beyond_one == Ticks(date_range.end_date) > Ticks(ReplaceYear(now, now.year + 1))
            beyond_two == Ticks(date_range.end_date) - Ticks(now) > 2 * 365 * (TodLast + 1)
        IN  /\ (FutureWarnings # <<>>) = beyond_one
            /\ beyond_one =>
                   /\ Len(FutureWarnings) = 1
                   /\ (FutureWarnings[1].kind = "more than 2 years in the future")
                          = beyond_two

---------------------------------------------------------------------------
(* Claims about the summary of a run *)

MergedCountsConsistent ==
    pc = "merged" =>
        SumLen([k \in DOMAIN merged_nodes |-> all_events_of(merged_nodes[k])]) =
            SumLen([k \in DOMAIN existing_nodes |-> existing_nodes[k].existing_events])
            + SumLen([k \in DOMAIN merged_nodes |-> merged_nodes[k].new_events])

\* The counts of the runs that do report
ReportedCountsConsistent ==
    run.status = "ok" => run.total_events = run.existing_preserved + run.new_events

---------------------------------------------------------------------------
(* Claims about the instant carried in the title *)

\* The titles the occurrences of the rules should have: the title of its
\* rule for each occurrence, in the order of generation
RuleTitles ==
    Concat([i \in DOMAIN rules |->
               [k \in DOMAIN generate_events_for_rule(rules[i], date_range,
                                                      DefaultTodoState) |->
                   rules[i].title]])

\* C28: threading the instant through the title is lossless: for rules with
\* valid titles, a title that contains '@@' included, the grouping step does
\* not raise, each occurrence that comes out of generate_all_events and
\* organize_events_by_date has the title of its rule, and it is placed
\* under the date of its own instant.
C28_TitleSurvivesThreading ==
    (pc \in {"organized", "raised"} /\ \A i \in DOMAIN rules : rules[i].cron.valid) =>
        /\ pc = "organized"
        /\ [k \in DOMAIN all_events |-> all_events[k].title] = RuleTitles
        /\ \A n \in DOMAIN new_nodes :
               \A k \in DOMAIN new_nodes[n].new_events :
                   new_nodes[n].new_events[k].instant = {t \in Instants :
                       /\ DateOf(t) = DateKey(new_nodes[n])
                       /\ t \in new_nodes[n].new_events[k].instant}

---------------------------------------------------------------------------
(* Claims about the depth of the headlines *)

\* The occurrence headlines under the date nodes of day d
OccurrenceLines(f, d) ==
    {f.lines[k] : k \in {k \in DOMAIN f.lines :
        IsHeadline(f.lines[k]) /\ Parent(f.lines, k) \in DateHeadlines(f, d)}}

====
